---- MODULE Spec2Model ----
(***************************************************************************)
(* A model of pyfred: the command line tool (new, link, vendor, package)   *)
(* acting on the file system, and the script-filter runtime (environment   *)
(* reader, output data model, serializer, invocation wrapper).             *)
(***************************************************************************)
EXTENDS Integers, Sequences, FiniteSets, TLC

(***************************************************************************)
(* Bounds of the model.                                                    *)
(***************************************************************************)
\* Number of entry names of the host workflows directory (pre-existing names
\* and the user.workflow.<UUID> names uuid4 generates).
MaxId == 6
\* Number of entries the host workflows directory may hold before the first command.
InitEntries == 2

(***************************************************************************)
(* Python values of the script-filter runtime, each tagged with its type.  *)
(* The tag t is the first field, so that two values of different types     *)
(* are told apart by their tags.                                           *)
(***************************************************************************)
PyNone == [t |-> "none"]
PyStr(s) == [t |-> "str", v |-> s]
PyBool(b) == [t |-> "bool", v |-> b]
PyNum(n) == [t |-> "num", v |-> n]
\* A list (a sequence of values) and a dict (the sequence of its <<key, value>>
\* pairs in the order they were inserted). As an expression of the handler a dict
\* is a display, {k1: v1, k2: v2, ...}, its pairs in the order they are written.
PyList(q) == [t |-> "list", v |-> q]
PyDict(q) == [t |-> "dict", v |-> q]
\* A pathlib.Path: Path("") is Path(".").
Path(s) == [t |-> "path", v |-> IF s = "" THEN "." ELSE s]
\* A member of an Enum class with its value, and an instance of a dataclass with its vars().
PyEnum(cls, name, value) == [t |-> "enum", cls |-> cls, name |-> name, v |-> value]
\* The module the dataclasses are imported from: pyfred.model in workflow.py and in
\* the tests, vendored.pyfred.model in the template's script. With PYTHONPATH=.:vendored
\* these are two modules, and the classes of one are not the classes of the other.
ModelModule == "pyfred.model"
VendoredModule == "vendored.pyfred.model"
PyObj(cls, fields) == [t |-> "obj", cls |-> cls, mod |-> ModelModule, v |-> fields]
\* A constructor call the handler makes: cls(**kw), its arguments calls or values,
\* written in the order of the fields of the class; cls is the class of that name
\* in the module mod.
PyNew(cls, kw) == [t |-> "new", cls |-> cls, mod |-> ModelModule, kw |-> kw]
\* A handler body that calls logging.debug and then returns the value of e.
Debugging(e) == [t |-> "do", log |-> "debug", then |-> e]
\* The expression e with its classes imported from vendored.pyfred.model.
RECURSIVE Vendored(_)
Vendored(e) ==
    CASE e.t = "new" ->
           [e EXCEPT !.mod = VendoredModule,
                     !.kw = [k \in DOMAIN e.kw |-> Vendored(e.kw[k])]]
      [] e.t = "list" -> [e EXCEPT !.v = [i \in DOMAIN e.v |-> Vendored(e.v[i])]]
      [] e.t = "dict" ->
           [e EXCEPT !.v = [i \in DOMAIN e.v |-> <<e.v[i][1], Vendored(e.v[i][2])>>]]
      [] e.t = "do" -> [e EXCEPT !.then = Vendored(e.then)]
      [] OTHER -> e

\* a == b for two keys of a dict: True == 1 and False == 0.
KeyNumber(k) == IF k.t = "bool" THEN (IF k.v THEN 1 ELSE 0) ELSE k.v
PyEq(a, b) ==
    \/ a = b
    \/ a.t \in {"num", "bool"} /\ b.t \in {"num", "bool"} /\ KeyNumber(a) = KeyNumber(b)

\* d[k] = v on the pairs q of a dict: a key equal to k keeps its place and its key
\* object and takes the value v; otherwise the pair is added at the end.
SetItem(q, k, v) ==
    IF \E i \in DOMAIN q : PyEq(q[i][1], k)
    THEN [i \in DOMAIN q |-> IF PyEq(q[i][1], k) THEN <<q[i][1], v>> ELSE q[i]]
    ELSE Append(q, <<k, v>>)

\* The dict built from the pairs q, inserted in their order.
RECURSIVE DictOf(_)
DictOf(q) ==
    IF q = <<>> THEN <<>>
    ELSE SetItem(DictOf(SubSeq(q, 1, Len(q) - 1)), q[Len(q)][1], q[Len(q)][2])

\* bool(v)
Truthy(v) ==
    CASE v.t = "none" -> FALSE
      [] v.t = "str" -> v.v # ""
      [] v.t = "bool" -> v.v
      [] v.t = "num" -> v.v # 0
      [] v.t = "list" -> v.v # <<>>
      [] v.t = "dict" -> v.v # <<>>
      [] OTHER -> TRUE

(***************************************************************************)
(* Optional values and the results of calls.                               *)
(***************************************************************************)
\* None, and a value that is present, for Optional[...] values.
None == <<>>
Some(x) == <<x>>

\* A call that returned val, and a call that raised the exception exc.
Ret(v) == [exc |-> "none", val |-> v]
Raise(e) == [exc |-> e, val |-> None]

(***************************************************************************)
(* The file system the command line tool works on.                         *)
(***************************************************************************)
\* Names of project directories below the current directory of `new`.
Projects == {"a"}

\* Paths below a project directory, relative to it, as sequences of components.
WorkflowDir == <<"workflow">>
VendoredDir == <<"workflow", "vendored">>
DistDir == <<"dist">>
InfoPlist == <<"workflow", "Info.plist">>
WorkflowPy == <<"workflow", "workflow.py">>
ArchiveFile == <<"dist", "workflow.alfredworkflow">>
\* The files of the template directory copytree copies.
TemplateFiles == {WorkflowPy}
TemplateDirs == {WorkflowDir}
\* What `git init <name>` creates in the project directory (git 2.39 with its
\* default template directory).
GitDirs ==
    {<<".git">>, <<".git", "branches">>, <<".git", "hooks">>, <<".git", "info">>,
     <<".git", "objects">>, <<".git", "objects", "info">>,
     <<".git", "objects", "pack">>, <<".git", "refs">>, <<".git", "refs", "heads">>,
     <<".git", "refs", "tags">>}
GitFiles ==
    {<<".git", "HEAD">>, <<".git", "config">>, <<".git", "description">>,
     <<".git", "hooks", "applypatch-msg.sample">>,
     <<".git", "hooks", "commit-msg.sample">>,
     <<".git", "hooks", "fsmonitor-watchman.sample">>,
     <<".git", "hooks", "post-update.sample">>,
     <<".git", "hooks", "pre-applypatch.sample">>,
     <<".git", "hooks", "pre-commit.sample">>,
     <<".git", "hooks", "pre-merge-commit.sample">>,
     <<".git", "hooks", "pre-push.sample">>, <<".git", "hooks", "pre-rebase.sample">>,
     <<".git", "hooks", "pre-receive.sample">>,
     <<".git", "hooks", "prepare-commit-msg.sample">>,
     <<".git", "hooks", "push-to-checkout.sample">>,
     <<".git", "hooks", "update.sample">>, <<".git", "info", "exclude">>}
\* What pip may install into <project>/workflow/vendored.
VendorFiles == {<<"workflow", "vendored", "dep.py">>}

Ids == 1..MaxId

\* What an entry name of the host workflows directory holds: nothing, something that
\* is no symlink, a symlink to some other place, or a symlink whose content is the
\* path of project p's workflow directory (written p).
EntryKinds == {"none", "file", "other"} \cup Projects

\* A project directory that does not exist, and an existing directory that holds no
\* workflow. archive is the content of dist/workflow.alfredworkflow once it is written.
AbsentDir == [root |-> FALSE, files |-> {}, dirs |-> {}, archive |-> None]
PlainDir == [root |-> TRUE, files |-> {}, dirs |-> {}, archive |-> None]
\* A workflow project that is there already (created earlier, or checked out): the
\* script and the manifest, nothing vendored, packaged or linked yet.
ExistingProject ==
    [root |-> TRUE, files |-> {<<"workflow", "workflow.py">>, <<"workflow", "Info.plist">>},
     dirs |-> {<<"workflow">>}, archive |-> None]

VARIABLES
    fs,       \* fs[p]: the project directory <cwd>/p
    alfred,   \* what the lookup of Alfred's sync directory finds
    hostdir,  \* the host workflows directory: "absent", "file" or "dir"
    links,    \* links[i]: the entry named i of the host workflows directory
    nextId,   \* the next name uuid4 generates
    last,     \* the last command: its arguments, how it ended, what it did
    environ,  \* os.environ of a workflow script: environ[name] is None when name is unset
    run,      \* the workflow script: where it is, what script_filter kept, what the handler did
    stdout    \* the lines the workflow script has printed

cliVars == <<fs, alfred, hostdir, links, nextId, last>>
filterVars == <<environ, run, stdout>>
vars == <<fs, alfred, hostdir, links, nextId, last, environ, run, stdout>>

(***************************************************************************)
(* model.py                                                                *)
(***************************************************************************)
\* The members of Key and of Type, with their values.
KeyCmd == PyEnum("Key", "Cmd", "cmd")
KeyOption == PyEnum("Key", "Option", "alt")
KeyControl == PyEnum("Key", "Control", "ctrl")
KeyShift == PyEnum("Key", "Shift", "shift")
KeyFn == PyEnum("Key", "Fn", "fn")
TypeDefault == PyEnum("Type", "Default", "default")
TypeFile == PyEnum("Type", "File", "file")
TypeFileSkipCheck == PyEnum("Type", "FileSkipCheck", "file:skipcheck")

\* The bounds of rerun, 0.1 and 5 seconds, in hundredths of a second.
RerunMin == 10
RerunMax == 500

\* The fields of a dataclass in the order they are declared, which is the order of
\* vars(obj).
Fields(cls) ==
    CASE cls = "Icon" -> <<"path", "type">>
      [] cls = "Text" -> <<"copy", "large_type">>
      [] cls = "Data" -> <<"subtitle", "arg", "icon", "valid">>
      [] cls = "Action" -> <<"text", "url", "file", "auto">>
      [] cls = "OutputItem" ->
           <<"title", "subtitle", "uid", "arg", "icon", "valid", "match", "autocomplete",
             "mods", "text", "quicklook_url", "actions", "type">>
      [] cls = "ScriptFilterOutput" -> <<"rerun", "items", "variables">>
      [] cls = "Environment" ->
           <<"debug", "preferences_file", "version", "version_build", "workflow_name",
             "workflow_version", "workflow_bundle_id", "workflow_uid", "workflow_cache",
             "workflow_data">>

\* isinstance(v, cls) for a dataclass or Enum cls.
IsInstance(v, cls) == v.t \in {"obj", "enum"} /\ v.cls = cls

\* An Icon without __post_init__: any type is taken.
Icon_Unchecked(kw) == Ret(PyObj("Icon", kw))

\* Icon(path, type) with Icon.__post_init__
Icon(kw) ==
    IF Truthy(kw.type) /\ kw.type \notin {PyStr("fileicon"), PyStr("filetype")}
    THEN Raise("ValueError")
    ELSE Ret(PyObj("Icon", kw))

\* Text(copy, large_type) with Text.__post_init__
Text(kw) ==
    IF kw.copy = PyNone /\ kw.large_type = PyNone
    THEN Raise("ValueError")
    ELSE Ret(PyObj("Text", kw))

\* Data(subtitle, arg, icon, valid) and Action(text, url, file, auto)
Data(kw) == Ret(PyObj("Data", kw))
Action(kw) == Ret(PyObj("Action", kw))

\* An OutputItem whose __post_init__ does not test the title.
OutputItem_TitleUnchecked(kw) ==
    LET given == IF kw.type = PyNone THEN TypeDefault ELSE kw.type
        set == IF ~Truthy(given) THEN TypeDefault ELSE given
        type == IF IsInstance(set, "Type") THEN PyStr(set.v) ELSE set
        noValue == kw.mods # PyNone /\ \E i \in DOMAIN kw.mods.v : kw.mods.v[i][1].t # "enum"
        mods == IF kw.mods = PyNone THEN PyNone
                ELSE PyDict(DictOf([i \in DOMAIN kw.mods.v |->
                                      <<PyStr(kw.mods.v[i][1].v), kw.mods.v[i][2]>>]))
    IN  IF noValue THEN Raise("AttributeError")
        ELSE Ret(PyObj("OutputItem", [kw EXCEPT !.type = type, !.mods = mods]))

\* OutputItem(title, ...) with OutputItem.__post_init__; a type that is not given
\* is the default of the field, Type.Default.
OutputItem(kw) ==
    LET given == IF kw.type = PyNone THEN TypeDefault ELSE kw.type
        set == IF ~Truthy(given) THEN TypeDefault ELSE given
        type == IF IsInstance(set, "Type") THEN PyStr(set.v) ELSE set
        noValue == kw.mods # PyNone /\ \E i \in DOMAIN kw.mods.v : kw.mods.v[i][1].t # "enum"
        mods == IF kw.mods = PyNone THEN PyNone
                ELSE PyDict(DictOf([i \in DOMAIN kw.mods.v |->
                                      <<PyStr(kw.mods.v[i][1].v), kw.mods.v[i][2]>>]))
    IN  IF noValue THEN Raise("AttributeError")
        ELSE IF ~Truthy(kw.title) THEN Raise("ValueError")
        ELSE Ret(PyObj("OutputItem", [kw EXCEPT !.type = type, !.mods = mods]))

\* A ScriptFilterOutput whose __post_init__ tests 0.1 < rerun < 5.
ScriptFilterOutput_ExclusiveBounds(kw) ==
    IF kw.rerun # PyNone /\ ~(RerunMin < kw.rerun.v /\ kw.rerun.v < RerunMax)
    THEN Raise("ValueError")
    ELSE Ret(PyObj("ScriptFilterOutput", kw))

\* ScriptFilterOutput(rerun, items, variables) with ScriptFilterOutput.__post_init__
ScriptFilterOutput(kw) ==
    IF kw.rerun # PyNone /\ ~(RerunMin <= kw.rerun.v /\ kw.rerun.v <= RerunMax)
    THEN Raise("ValueError")
    ELSE Ret(PyObj("ScriptFilterOutput", kw))

\* cls(**kw)
Construct(cls, kw) ==
    CASE cls = "Icon" -> Icon(kw)
      [] cls = "Text" -> Text(kw)
      [] cls = "Data" -> Data(kw)
      [] cls = "Action" -> Action(kw)
      [] cls = "OutputItem" -> OutputItem(kw)
      [] cls = "ScriptFilterOutput" -> ScriptFilterOutput(kw)

\* The value of an expression of the handler: the arguments of a call are
\* evaluated in the order they are written, then the call is made; the elements of
\* a list and the values of a dict display are evaluated in their order; the first
\* exception raised ends it.
RECURSIVE Eval(_)
Eval(e) ==
    CASE e.t = "new" ->
           LET a == [k \in DOMAIN e.kw |-> Eval(e.kw[k])]
               order == Fields(e.cls)
               bad == {i \in DOMAIN order : a[order[i]].exc # "none"}
               made == Construct(e.cls, [k \in DOMAIN e.kw |-> a[k].val])
           IN  IF bad # {} THEN Raise(a[order[CHOOSE i \in bad : \A j \in bad : i <= j]].exc)
               ELSE IF made.exc # "none" THEN made
               ELSE Ret([made.val EXCEPT !.mod = e.mod])
      [] e.t = "list" ->
           LET a == [i \in DOMAIN e.v |-> Eval(e.v[i])]
               bad == {i \in DOMAIN e.v : a[i].exc # "none"}
           IN  IF bad # {} THEN Raise(a[CHOOSE i \in bad : \A j \in bad : i <= j].exc)
               ELSE Ret(PyList([i \in DOMAIN e.v |-> a[i].val]))
      [] e.t = "dict" ->
           LET a == [i \in DOMAIN e.v |-> Eval(e.v[i][2])]
               bad == {i \in DOMAIN e.v : a[i].exc # "none"}
           IN  IF bad # {} THEN Raise(a[CHOOSE i \in bad : \A j \in bad : i <= j].exc)
               ELSE Ret(PyDict(DictOf([i \in DOMAIN e.v |-> <<e.v[i][1], a[i].val>>])))
      [] e.t = "do" -> Eval(e.then)
      [] OTHER -> Ret(e)

\* The levels at which the body of the handler e logs before it returns.
Logged(e) == IF e.t = "do" THEN {e.log} ELSE {}

\* The names of the variables Alfred sets that from_env reads, and the name under
\* which Alfred passes the bundle identifier.
EnvVars ==
    {"alfred_version", "alfred_debug", "alfred_preferences", "alfred_version_build",
     "alfred_workflow_name", "alfred_workflow_version", "alfred_workflow_bundleid",
     "alfred_workflow_bundle_id", "alfred_workflow_uid", "alfred_workflow_cache",
     "alfred_workflow_data"}

\* os.environ.get(name, ""): a variable that is not set reads as the empty string.
Get_DefaultEmpty(env, name) == IF env[name] = None THEN PyStr("") ELSE PyStr(env[name][1])

\* os.environ.get(name)
Get(env, name) == IF env[name] = None THEN PyNone ELSE PyStr(env[name][1])

\* Path(s).expanduser(): a leading ~ becomes the home directory.
TildeCache == "~/Library/Caches/wf"
HomeCache == "/Users/Crayons/Library/Caches/wf"
ExpandUser(path) == IF path.v = TildeCache THEN Path(HomeCache) ELSE path

\* A marker test that takes only an unset alfred_version for absent.
NotHosted_IsNone(env) == Get(env, "alfred_version") = PyNone

\* not os.environ.get("alfred_version")
NotHosted(env) == ~Truthy(Get(env, "alfred_version"))

\* Environment.from_env(): None when alfred_version is unset or empty; Path(None)
\* is a TypeError.
from_env(env) ==
    LET cache_dir == Get(env, "alfred_workflow_cache")
        data_dir == Get(env, "alfred_workflow_data")
    IN  IF NotHosted(env) THEN Ret(PyNone)
        ELSE IF Get(env, "alfred_preferences") = PyNone THEN Raise("TypeError")
        ELSE Ret(PyObj("Environment",
                       [debug |-> PyBool(Get(env, "alfred_debug") = PyStr("1")),
                        preferences_file |-> Path(Get(env, "alfred_preferences").v),
                        version |-> Get(env, "alfred_version"),
                        version_build |-> Get(env, "alfred_version_build"),
                        workflow_name |-> Get(env, "alfred_workflow_name"),
                        workflow_version |-> Get(env, "alfred_workflow_version"),
                        workflow_bundle_id |-> Get(env, "alfred_workflow_bundle_id"),
                        workflow_uid |-> IF Truthy(Get(env, "alfred_workflow_uid"))
                                         THEN Get(env, "alfred_workflow_uid") ELSE PyStr(""),
                        workflow_cache |-> IF Truthy(cache_dir)
                                           THEN ExpandUser(Path(cache_dir.v)) ELSE PyNone,
                        workflow_data |-> IF Truthy(data_dir)
                                          THEN ExpandUser(Path(data_dir.v)) ELSE PyNone]))

(***************************************************************************)
(* workflow.py                                                             *)
(***************************************************************************)
\* JSON values: null, and a value json.dumps cannot serialize (a TypeError); a
\* string, a boolean and a number are written as the Python value; an array is
\* [t |-> "arr", v |-> sequence], an object [t |-> "obj", v |-> the sequence of its
\* <<name, value>> members as they are written].
JNull == [t |-> "null"]
JErr == [t |-> "TypeError"]

\* vars(obj): every field, None or not.
vars_all(obj) ==
    LET names == Fields(obj.cls)
    IN  PyDict([i \in DOMAIN names |-> <<PyStr(names[i]), obj.v[names[i]]>>])

\* vars_if_set(obj): {k: v for k, v in vars(obj).items() if v is not None}
vars_if_set(obj) ==
    LET set(n) == obj.v[n] # PyNone
        names == SelectSeq(Fields(obj.cls), set)
    IN  PyDict([i \in DOMAIN names |-> <<PyStr(names[i]), obj.v[names[i]]>>])

\* The key json.dumps writes for a dict key: a str as it is, an int as its digits,
\* True, False and None as "true", "false" and "null"; any other key is a TypeError
\* (written "").
JsonKey(k) ==
    CASE k.t = "str" -> k.v
      [] k.t = "num" -> ToString(k.v)
      [] k.t = "bool" -> IF k.v THEN "true" ELSE "false"
      [] k.t = "none" -> "null"
      [] OTHER -> ""

\* json.dumps(v, default=vars_if_set) as a JSON value: default is called for a
\* dataclass instance and its result is serialized in turn. A dict is written
\* member by member in its order, two keys that are written alike included.
RECURSIVE dumps(_)
dumps(v) ==
    CASE v.t = "none" -> JNull
      [] v.t \in {"str", "bool", "num"} -> v
      [] v.t = "list" -> [t |-> "arr", v |-> [i \in DOMAIN v.v |-> dumps(v.v[i])]]
      [] v.t = "dict" ->
           IF \E i \in DOMAIN v.v : v.v[i][1].t \notin {"str", "num", "bool", "none"}
           THEN JErr
           ELSE [t |-> "obj",
                 v |-> [i \in DOMAIN v.v |-> <<JsonKey(v.v[i][1]), dumps(v.v[i][2])>>]]
      [] v.t = "obj" -> dumps(vars_if_set(v))
      [] OTHER -> JErr

\* json.dumps raised.
RECURSIVE Failed(_)
Failed(j) ==
    CASE j.t = "TypeError" -> TRUE
      [] j.t = "arr" -> \E i \in DOMAIN j.v : Failed(j.v[i])
      [] j.t = "obj" -> \E i \in DOMAIN j.v : Failed(j.v[i][2])
      [] OTHER -> FALSE

\* isinstance(output, ScriptFilterOutput), with the ScriptFilterOutput that
\* workflow.py imports from pyfred.model.
IsScriptFilterOutput(v) == IsInstance(v, "ScriptFilterOutput") /\ v.mod = ModelModule

\* The exit status of the workflow script: exit(1) and an exception that escapes
\* end it with status 1.
ExitStatus(r) == IF r.pc \in {"exited", "raised", "crashed"} THEN 1 ELSE 0

\* sys.argv of the workflow script.
Argv == <<"workflow.py", "query">>

\* The workflow script before script_filter is applied.
NotStarted ==
    [pc |-> "start", exc |-> "none", environment |-> PyNone, level |-> "unset",
     path |-> PyNone, args |-> <<>>, received |-> <<>>, program |-> PyNone,
     returned |-> PyNone, log |-> {}]

\* An environment without any of the variables.
NoEnviron == [n \in EnvVars |-> None]

\* script_filter(fn): reads sys.argv and the environment, configures logging, and
\* returns the decorator; an exception of from_env ends the script. When from_env
\* returns None it has logged a warning, which installs the default handler of the
\* root logger, so that logging.basicConfig does nothing afterwards: the level stays
\* WARNING. level is the level of the root logger, log the levels logged at it.
Decorate ==
    /\ run.pc = "start"
    /\ LET e == from_env(environ)
       IN  run' = IF e.exc # "none"
                  THEN [run EXCEPT !.pc = "crashed", !.exc = e.exc]
                  ELSE [run EXCEPT !.pc = "decorated",
                                   !.environment = e.val,
                                   !.level = IF e.val = PyNone THEN "WARNING"
                                             ELSE IF e.val.v.debug.v THEN "DEBUG"
                                             ELSE "INFO",
                                   !.log = IF e.val = PyNone THEN {"warning"} ELSE {},
                                   !.path = Path(Argv[1]),
                                   !.args = Tail(Argv)]
    /\ UNCHANGED <<cliVars, environ, stdout>>

\* decorator(): calls the handler, whose body is the expression prog, and prints
\* what it returned when that is a ScriptFilterOutput. Any other value is logged
\* as an error, and its repr at level DEBUG when the root logger shows that level.
Call(prog) ==
    /\ run.pc = "decorated"
    /\ LET out == Eval(prog)
           called == [run EXCEPT !.received = Append(@, <<run.path, run.args, run.environment>>),
                                 !.program = prog,
                                 !.log = @ \cup (IF run.level = "DEBUG" THEN Logged(prog)
                                                 ELSE {})]
       IN  IF out.exc # "none"
           THEN /\ run' = [called EXCEPT !.pc = "raised", !.exc = out.exc]
                /\ stdout' = stdout
           ELSE IF ~IsScriptFilterOutput(out.val)
           THEN /\ run' = [called EXCEPT !.pc = "exited", !.returned = out.val,
                                         !.log = called.log \cup {"error"} \cup
                                                  (IF run.level = "DEBUG" THEN {"debug"} ELSE {})]
                /\ stdout' = stdout
           ELSE IF Failed(dumps(out.val))
           THEN /\ run' = [called EXCEPT !.pc = "raised", !.returned = out.val,
                                         !.exc = "TypeError"]
                /\ stdout' = stdout
           ELSE /\ run' = [called EXCEPT !.pc = "returned", !.returned = out.val]
                /\ stdout' = Append(stdout, dumps(out.val))
    /\ UNCHANGED <<cliVars, environ>>

(***************************************************************************)
(* cli.py                                                                  *)
(***************************************************************************)
\* Path.home(), the sync directory the preferences name, and the location the
\* test of _get_workflows_directory expects.
Home == <<"home">>
SyncDir == <<"sync">>
DefaultWorkflowsDirectory ==
    Home \o <<"Library", "Application Support", "Alfred", "Alfred.alfredpreferences", "workflows">>

\* path.exists(), path.is_dir(), path.is_file() in a project directory.
Exists(f, path) == path \in f.files \cup f.dirs
IsDir(f, path) == path \in f.dirs
IsFile(f, path) == path \in f.files

\* entry.relative_to(directory)
RelativeTo(path, dir) == SubSeq(path, Len(dir) + 1, Len(path))
\* directory.rglob("**/*"): every entry below the directory.
RGlob(f, dir) ==
    {e \in f.files \cup f.dirs : Len(e) > Len(dir) /\ SubSeq(e, 1, Len(dir)) = dir}

\* _get_sync_directory(): the preferences file is missing, has no syncfolder key,
\* names a directory that does not exist, or names the sync directory.
_get_sync_directory(a) ==
    IF a = "notinstalled" THEN Raise("ValueError")
    ELSE IF a = "nosyncfolder" THEN Raise("ValueError")
    ELSE IF a = "syncmissing" THEN Raise("OSError")
    ELSE Ret(SyncDir)

\* The lookup as the test patches it: patch("pyfred.cli._get_sync_directory", return_value=None).
SyncLookup(a) ==
    IF a = "patchedNone" THEN Ret(None) ELSE _get_sync_directory(a)

\* _get_workflows_directory(): None / "Alfred.alfredpreferences" is a TypeError.
_get_workflows_directory(a) ==
    LET s == SyncLookup(a)
    IN  IF s.exc # "none" THEN s
        ELSE IF s.val = None THEN Raise("TypeError")
        ELSE Ret(s.val \o <<"Alfred.alfredpreferences", "workflows">>)

\* A decorator that calls the command without testing for the manifest.
HasInfoPlist_Unchecked(f) == TRUE

\* The test of _must_be_run_from_workflow_project_root: <cwd>/workflow/Info.plist exists.
HasInfoPlist(f) == Exists(f, InfoPlist)

\* workflows.iterdir() of find_workflow_link: the call raises, or lists the directory.
IterWorkflows(a, hd) ==
    LET w == _get_workflows_directory(a)
    IN  IF w.exc # "none" THEN w
        ELSE IF hd # "dir" THEN Raise("OSError")
        ELSE Ret(Ids)

\* A find_workflow_link that finds nothing.
FoundLinks_None(p, L) == {}

\* find_workflow_link(target): the entries that are symlinks whose content is the
\* path of project p's workflow directory; the scan returns the first that iterdir yields.
FoundLinks(p, L) == {i \in Ids : L[i] = p}

\* copytree with dirs_exist_ok=True: an existing root_dir is merged into.
CopyTreeFails_DirsExistOk(f) == FALSE

\* shutil.copytree(template_dir, root_dir) raises FileExistsError (an OSError) when
\* root_dir exists.
CopyTreeFails(f) == f.root

\* _vendor(root_path): mkdir -p workflow/vendored, then pip, which exits with rc and,
\* when it succeeds, has installed deps. The directory afterwards.
_vendor(f, rc, deps) ==
    [f EXCEPT !.root = TRUE,
              !.dirs = @ \cup {WorkflowDir, VendoredDir},
              !.files = IF rc = 0 THEN @ \cup deps ELSE @]

\* The value _vendor returns: whether pip exited with status zero.
VendorOk(rc) == rc = 0

\* A zip of the directory's own files only (glob("*")), without its subdirectories.
_zip_dir_Flat(f, dir) ==
    {RelativeTo(e, dir) : e \in {x \in RGlob(f, dir) : IsFile(f, x) /\ Len(x) = Len(dir) + 1}}

\* _zip_dir(directory, output_file): the names of the archive, every entry below
\* the directory that is a regular file, under its path relative to the directory.
_zip_dir(f, dir) == {RelativeTo(e, dir) : e \in {x \in RGlob(f, dir) : IsFile(f, x)}}

\* A _link that recreates the link it found whether or not relink is given.
_link_AlwaysRelinks(relink, same_path, f, p, found, nid, a, hd, L) ==
    LET it == IterWorkflows(a, hd)
        removed == IF found # 0 THEN [L EXCEPT ![found] = "none"] ELSE L
        reuse == same_path /\ found # 0
        source == IF reuse THEN found ELSE nid
        keep == [exc |-> "none", links |-> L, trace |-> <<>>, fresh |-> FALSE]
    IN  IF ~Exists(f, WorkflowDir) \/ ~IsDir(f, WorkflowDir) THEN [keep EXCEPT !.exc = "ValueError"]
        ELSE IF it.exc # "none" THEN [keep EXCEPT !.exc = it.exc]
        ELSE [exc |-> "none", links |-> [removed EXCEPT ![source] = p],
              trace |-> (IF found # 0 THEN <<"unlink">> ELSE <<>>) \o <<"symlink">>,
              fresh |-> ~reuse]

\* A _link that puts the new link at the path of the one it found whether or not
\* same_path is given.
_link_KeepsPath(relink, same_path, f, p, found, nid, a, hd, L) ==
    LET it == IterWorkflows(a, hd)
        removed == IF found # 0 THEN [L EXCEPT ![found] = "none"] ELSE L
        reuse == found # 0
        source == IF reuse THEN found ELSE nid
        keep == [exc |-> "none", links |-> L, trace |-> <<>>, fresh |-> FALSE]
    IN  IF ~Exists(f, WorkflowDir) \/ ~IsDir(f, WorkflowDir) THEN [keep EXCEPT !.exc = "ValueError"]
        ELSE IF it.exc # "none" THEN [keep EXCEPT !.exc = it.exc]
        ELSE IF found # 0 /\ ~relink THEN keep
        ELSE [exc |-> "none", links |-> [removed EXCEPT ![source] = p],
              trace |-> (IF found # 0 THEN <<"unlink">> ELSE <<>>) \o <<"symlink">>,
              fresh |-> ~reuse]

\* _link(relink, same_path, wf_dir), with the link its scan finds (0: none) and the
\* name uuid4 generates: the exception raised if any, the host directory afterwards,
\* what was done, and whether the generated name was used.
_link(relink, same_path, f, p, found, nid, a, hd, L) ==
    LET it == IterWorkflows(a, hd)
        removed == IF found # 0 THEN [L EXCEPT ![found] = "none"] ELSE L
        reuse == same_path /\ found # 0
        source == IF reuse THEN found ELSE nid
        linked == [removed EXCEPT ![source] = p]
        keep == [exc |-> "none", links |-> L, trace |-> <<>>, fresh |-> FALSE]
    IN  IF ~Exists(f, WorkflowDir) THEN [keep EXCEPT !.exc = "ValueError"]
        ELSE IF ~IsDir(f, WorkflowDir) THEN [keep EXCEPT !.exc = "ValueError"]
        ELSE IF it.exc # "none" THEN [keep EXCEPT !.exc = it.exc]
        ELSE IF found # 0 /\ ~relink THEN keep
        ELSE [exc |-> "none", links |-> linked,
              trace |-> (IF found # 0 THEN <<"unlink">> ELSE <<>>) \o <<"symlink">>,
              fresh |-> ~reuse]

\* The links the scan of _link may find: the matching entries, 0 when there is
\* none or the scan is not reached.
Scans(f, p, a, hd, L) ==
    IF IsDir(f, WorkflowDir) /\ IterWorkflows(a, hd).exc = "none" /\ FoundLinks(p, L) # {}
    THEN FoundLinks(p, L) ELSE {0}

\* How a command ended: it returned, it called exit(1), or an exception escaped.
Ended(exc) == IF exc = "none" THEN "return" ELSE "uncaught"
\* The exit status of the process.
Status(l) == IF l.exit = "return" THEN 0 ELSE 1

\* The record of a command: its arguments and inputs (args, piprc, gitfound, gitrc), how it
\* ended (exit, exc), the levels it logged at or above warning, the file system
\* calls and subprocesses it made in order (trace), the link its scan found, and
\* the value it returned when it is a function call.
Ran(cmd, p) ==
    [cmd |-> cmd, proj |-> p, relink |-> FALSE, same_path |-> FALSE, git |-> FALSE,
     gitfound |-> TRUE, gitrc |-> 0, piprc |-> 0, exit |-> "return", exc |-> "none", log |-> {},
     trace |-> <<>>, found |-> 0, result |-> None]

\* The decorator's early exit: logging.critical, exit(1).
NotInRoot(cmd, p) == [Ran(cmd, p) EXCEPT !.exit = "exit1", !.log = {"critical"}]

\* new(args). With --git it runs `git init <name>`: subprocess.call raises
\* FileNotFoundError, which new does not catch, when there is no git on PATH
\* (gitfound is FALSE); otherwise git ends with status gitrc, having created the
\* repository when that is 0. trace holds the steps that were completed.
New(p, git, gitfound, gitrc, piprc, deps) ==
    LET ran == [Ran("new", p) EXCEPT !.git = git, !.gitfound = gitfound, !.gitrc = gitrc,
                                     !.piprc = piprc]
        copied == [fs[p] EXCEPT !.root = TRUE, !.files = @ \cup TemplateFiles,
                                !.dirs = @ \cup TemplateDirs]
        inited == IF git /\ gitrc = 0
                  THEN [copied EXCEPT !.files = @ \cup GitFiles, !.dirs = @ \cup GitDirs]
                  ELSE copied
        withPlist == [inited EXCEPT !.files = @ \cup {InfoPlist}]
        vendored == _vendor(withPlist, piprc, deps)
    IN  IF CopyTreeFails(fs[p])
        THEN /\ last' = [ran EXCEPT !.exit = "exit1", !.exc = "OSError", !.log = {"error"}]
             /\ UNCHANGED <<fs, alfred, hostdir, links, nextId, filterVars>>
        ELSE IF git /\ ~gitfound
        THEN /\ fs' = [fs EXCEPT ![p] = copied]
             /\ last' = [ran EXCEPT !.exit = "uncaught", !.exc = "OSError",
                                    !.trace = <<"copytree", "chmod">>]
             /\ UNCHANGED <<alfred, hostdir, links, nextId, filterVars>>
        ELSE \E found \in Scans(vendored, p, alfred, hostdir, links) :
               LET r == _link(TRUE, FALSE, vendored, p, found, nextId, alfred, hostdir, links)
               IN  /\ r.fresh => nextId <= MaxId
                   /\ fs' = [fs EXCEPT ![p] = vendored]
                   /\ links' = r.links
                   /\ nextId' = IF r.fresh THEN nextId + 1 ELSE nextId
                   /\ last' = [ran EXCEPT
                                 !.exit = Ended(r.exc), !.exc = r.exc,
                                 !.log = IF git /\ gitrc # 0 THEN {"warning"} ELSE {},
                                 !.trace = <<"copytree", "chmod">>
                                           \o (IF git THEN <<"git">> ELSE <<>>)
                                           \o <<"plist", "mkdir", "pip">> \o r.trace,
                                 !.found = found]
                   /\ UNCHANGED <<alfred, hostdir, filterVars>>

\* link(args), behind _must_be_run_from_workflow_project_root
Link(p, relink, same_path) ==
    LET ran == [Ran("link", p) EXCEPT !.relink = relink, !.same_path = same_path]
    IN  IF ~HasInfoPlist(fs[p])
        THEN /\ last' = [NotInRoot("link", p) EXCEPT !.relink = relink, !.same_path = same_path]
             /\ UNCHANGED <<fs, alfred, hostdir, links, nextId, filterVars>>
        ELSE \E found \in Scans(fs[p], p, alfred, hostdir, links) :
               LET r == _link(relink, same_path, fs[p], p, found, nextId, alfred, hostdir, links)
               IN  /\ r.fresh => nextId <= MaxId
                   /\ links' = r.links
                   /\ nextId' = IF r.fresh THEN nextId + 1 ELSE nextId
                   /\ last' = [ran EXCEPT
                                 !.exit = IF r.exc = "ValueError" THEN "exit1" ELSE Ended(r.exc),
                                 !.exc = r.exc,
                                 !.log = IF r.exc = "ValueError" THEN {"error"} ELSE {},
                                 !.trace = r.trace, !.found = found]
                   /\ UNCHANGED <<fs, alfred, hostdir, filterVars>>

\* vendor(args), behind _must_be_run_from_workflow_project_root: the value of
\* _vendor is dropped.
Vendor(p, piprc, deps) ==
    IF ~HasInfoPlist(fs[p])
    THEN /\ last' = NotInRoot("vendor", p)
         /\ UNCHANGED <<fs, alfred, hostdir, links, nextId, filterVars>>
    ELSE /\ fs' = [fs EXCEPT ![p] = _vendor(fs[p], piprc, deps)]
         /\ last' = [Ran("vendor", p) EXCEPT !.piprc = piprc, !.trace = <<"mkdir", "pip">>]
         /\ UNCHANGED <<alfred, hostdir, links, nextId, filterVars>>

\* package(args), behind _must_be_run_from_workflow_project_root
Package(p, piprc, deps) ==
    LET vendored == _vendor(fs[p], piprc, deps)
        dist == [vendored EXCEPT !.dirs = @ \cup {DistDir}]
        zipped == [dist EXCEPT !.files = @ \cup {ArchiveFile},
                               !.archive = Some(_zip_dir(dist, WorkflowDir))]
    IN  IF ~HasInfoPlist(fs[p])
        THEN /\ last' = NotInRoot("package", p)
             /\ UNCHANGED <<fs, alfred, hostdir, links, nextId, filterVars>>
        ELSE IF ~VendorOk(piprc)
        THEN /\ fs' = [fs EXCEPT ![p] = vendored]
             /\ last' = [Ran("package", p) EXCEPT !.piprc = piprc, !.exit = "exit1",
                                                  !.log = {"error"}, !.trace = <<"mkdir", "pip">>]
             /\ UNCHANGED <<alfred, hostdir, links, nextId, filterVars>>
        ELSE /\ fs' = [fs EXCEPT ![p] = zipped]
             /\ last' = [Ran("package", p) EXCEPT !.piprc = piprc,
                                                  !.trace = <<"mkdir", "pip", "mkdist", "zip">>]
             /\ UNCHANGED <<alfred, hostdir, links, nextId, filterVars>>

\* A direct call of _get_workflows_directory(), as the test makes it.
GetWorkflowsDirectory ==
    LET w == _get_workflows_directory(alfred)
    IN  /\ last' = [Ran("_get_workflows_directory", "none") EXCEPT
                      !.exit = Ended(w.exc), !.exc = w.exc, !.result = w.val]
        /\ UNCHANGED <<fs, alfred, hostdir, links, nextId, filterVars>>

Init ==
    /\ fs \in [Projects -> {AbsentDir, PlainDir, ExistingProject}]
    /\ alfred \in {"notinstalled", "nosyncfolder", "syncmissing", "ok", "patchedNone"}
    /\ hostdir \in {"absent", "file", "dir"}
    /\ links \in [Ids -> EntryKinds]
    /\ \A i \in Ids : i > InitEntries => links[i] = "none"
    /\ (alfred # "ok" \/ hostdir # "dir") => \A i \in Ids : links[i] = "none"
    /\ \A p \in Projects : Cardinality(FoundLinks(p, links)) <= 1
    /\ nextId = InitEntries + 1
    /\ last = Ran("none", "none")
    /\ environ = NoEnviron
    /\ run = NotStarted
    /\ stdout = <<>>

\* The outcomes of git init (not run, succeeded, failed, no git to run) and of pip
\* (failed; succeeded, having installed nothing or something).
GitRuns ==
    {[git |-> FALSE, found |-> TRUE, rc |-> 0], [git |-> TRUE, found |-> TRUE, rc |-> 0],
     [git |-> TRUE, found |-> TRUE, rc |-> 1], [git |-> TRUE, found |-> FALSE, rc |-> 0]}
PipRuns == {[rc |-> 1, deps |-> {}]} \cup {[rc |-> 0, deps |-> d] : d \in SUBSET VendorFiles}

Next ==
    \/ \E p \in Projects, g \in GitRuns, pip \in PipRuns :
         New(p, g.git, g.found, g.rc, pip.rc, pip.deps)
    \/ \E p \in Projects, relink \in BOOLEAN, same_path \in BOOLEAN : Link(p, relink, same_path)
    \/ \E p \in Projects, pip \in PipRuns : Vendor(p, pip.rc, pip.deps)
    \/ \E p \in Projects, pip \in PipRuns : Package(p, pip.rc, pip.deps)
    \/ GetWorkflowsDirectory

Spec == Init /\ [][Next]_vars

(***************************************************************************)
(* The workflow script: its environments and its handlers.                 *)
(***************************************************************************)
\* The environment of the test of the decorator.
FixturePreferences == "/Users/Crayons/Dropbox/Alfred/Alfred.alfredpreferences"
FixtureCache ==
    "/Users/Crayons/Library/Caches/com.runningwithcrayons.Alfred/Workflow Data/com.alfredapp.googlesuggest"
FixtureData ==
    "/Users/Crayons/Library/Application Support/Alfred/Workflow Data/com.alfredapp.googlesuggest"
FixtureEnviron ==
    [NoEnviron EXCEPT !["alfred_preferences"] = Some(FixturePreferences),
                      !["alfred_version"] = Some("5.0"),
                      !["alfred_version_build"] = Some("2058"),
                      !["alfred_workflow_bundleid"] = Some("com.alfredapp.googlesuggest"),
                      !["alfred_workflow_cache"] = Some(FixtureCache),
                      !["alfred_workflow_data"] = Some(FixtureData),
                      !["alfred_workflow_name"] = Some("Google Suggest"),
                      !["alfred_workflow_version"] = Some("1.7"),
                      !["alfred_workflow_uid"] =
                          Some("user.workflow.B0AC54EC-601C-479A-9428-01F9FD732959"),
                      !["alfred_debug"] = Some("1")]

\* The values each variable takes: unset, its fixture value, and for some the
\* empty string or another value.
EnvValues(n) ==
    {None, FixtureEnviron[n]}
    \cup (IF n = "alfred_workflow_bundle_id" THEN {Some("com.alfredapp.googlesuggest")} ELSE {})
    \cup (IF n \in {"alfred_version", "alfred_preferences", "alfred_workflow_cache",
                    "alfred_workflow_uid"}
          THEN {Some("")} ELSE {})
    \cup (IF n = "alfred_debug" THEN {Some("0")} ELSE {})
    \cup (IF n = "alfred_workflow_cache" THEN {Some(TildeCache)} ELSE {})
Environs ==
    [alfred_version : EnvValues("alfred_version"),
     alfred_debug : EnvValues("alfred_debug"),
     alfred_preferences : EnvValues("alfred_preferences"),
     alfred_version_build : EnvValues("alfred_version_build"),
     alfred_workflow_name : EnvValues("alfred_workflow_name"),
     alfred_workflow_version : EnvValues("alfred_workflow_version"),
     alfred_workflow_bundleid : EnvValues("alfred_workflow_bundleid"),
     alfred_workflow_bundle_id : EnvValues("alfred_workflow_bundle_id"),
     alfred_workflow_uid : EnvValues("alfred_workflow_uid"),
     alfred_workflow_cache : EnvValues("alfred_workflow_cache"),
     alfred_workflow_data : EnvValues("alfred_workflow_data")]

\* The environments the handlers are run in.
HandlerEnvirons ==
    {NoEnviron, FixtureEnviron,
     [FixtureEnviron EXCEPT !["alfred_debug"] = None],
     [FixtureEnviron EXCEPT !["alfred_preferences"] = None],
     [FixtureEnviron EXCEPT !["alfred_version"] = Some(""), !["alfred_preferences"] = None]}

\* OutputItem(title="Hello Alfred!") and its optional fields.
Unset(fields) == [f \in fields |-> PyNone]
OptionalFields ==
    {"subtitle", "uid", "arg", "icon", "valid", "match", "autocomplete", "mods", "text",
     "quicklook_url", "actions"}
MinimalItem ==
    [f \in OptionalFields \cup {"title", "type"} |->
       IF f = "title" THEN PyStr("Hello Alfred!") ELSE PyNone]

IconOf(path, type) == PyNew("Icon", [path |-> path, type |-> type])
TextOf(copy, large_type) == PyNew("Text", [copy |-> copy, large_type |-> large_type])
DataOf(subtitle, arg, icon, valid) ==
    PyNew("Data", [subtitle |-> subtitle, arg |-> arg, icon |-> icon, valid |-> valid])
ActionOf(text, url, file, auto) ==
    PyNew("Action", [text |-> text, url |-> url, file |-> file, auto |-> auto])

\* A value for each optional field, as the test of the full model sets them.
Sample(f) ==
    CASE f = "icon" -> IconOf(PyStr("public.jpeg"), PyStr("filetype"))
      [] f = "valid" -> PyBool(TRUE)
      [] f = "mods" ->
           PyDict(<<<<KeyCmd,
                     DataOf(PyStr("My new subtitle"), PyStr("An overridden argument"),
                            IconOf(PyStr("/System/Applications/Calendar.app"),
                                   PyStr("fileicon")),
                            PyBool(TRUE))>>>>)
      [] f = "text" -> TextOf(PyStr("Copy that"), PyStr("Large type this"))
      [] f = "actions" -> PyStr("an action")
      [] OTHER -> PyStr("a string")

\* Items with every subset of the optional fields set.
ItemsBySubset ==
    {PyNew("OutputItem", [f \in DOMAIN MinimalItem |->
                            IF f \in S THEN Sample(f) ELSE MinimalItem[f]]) :
       S \in SUBSET OptionalFields}

\* Values of the fields that are validated, normalized or nested.
Titles == {PyStr(""), PyStr("Hello Alfred!")}
Types == {PyNone, TypeFile, PyStr(""), PyStr("file:skipcheck")}
Valids == {PyNone, PyBool(FALSE)}
Icons ==
    {PyNone, IconOf(PyStr("icon.png"), PyNone), IconOf(PyStr("icon.png"), PyStr("")),
     IconOf(PyStr("icon.png"), PyStr("invalid"))}
Texts ==
    {PyNone, TextOf(PyNone, PyStr("large")), TextOf(PyStr("copy"), PyStr("large")),
     TextOf(PyNone, PyNone)}
Mods ==
    {PyNone,
     PyDict(<<<<KeyCmd, DataOf(PyNone, PyNone, PyNone, PyNone)>>>>),
     PyDict(<<<<KeyOption, DataOf(PyStr("sub"), PyNone, IconOf(PyStr(""), PyNone), PyNone)>>,
              <<KeyFn, DataOf(PyNone, PyStr("arg"), PyNone, PyBool(FALSE))>>>>),
     PyDict(<<<<PyStr("cmd"), DataOf(PyStr("sub"), PyNone, PyNone, PyNone)>>>>)}
Actions ==
    {PyNone, PyList(<<PyStr("one"), PyStr("two")>>),
     ActionOf(PyStr("text"), PyNone, PyNone, PyNone),
     ActionOf(PyList(<<PyStr("a"), PyStr("b")>>), PyStr("url"), PyStr("file"), PyStr("auto"))}
ItemsByValue ==
    {PyNew("OutputItem", [MinimalItem EXCEPT !.title = t, !.type = ty, !.valid = v, !.icon = i,
                                             !.text = x, !.mods = m, !.actions = a]) :
       t \in Titles, ty \in Types, v \in Valids, i \in Icons, x \in Texts, m \in Mods,
       a \in Actions}

OutputOf(rerun, items, variables) ==
    PyNew("ScriptFilterOutput", [rerun |-> rerun, items |-> items, variables |-> variables])

\* rerun values, in hundredths of a second, and variables.
Reruns ==
    {PyNone, PyNum(-100), PyNum(0), PyNum(5), PyNum(10), PyNum(420), PyNum(500), PyNum(501)}
Variables ==
    {PyNone, PyDict(<<<<PyStr("key"), PyNum(42)>>>>),
     PyDict(<<<<PyStr("query"), PyStr("value")>>>>),
     PyDict(<<<<PyNum(1), PyStr("x")>>, <<PyNone, PyStr("y")>>, <<PyBool(TRUE), PyStr("z")>>>>),
     PyDict(<<<<PyStr("1"), PyStr("y")>>, <<PyNum(1), PyStr("x")>>>>)}
ItemLists ==
    {PyNone, PyList(<<>>),
     PyList(<<PyNew("OutputItem", MinimalItem),
              PyNew("OutputItem", [MinimalItem EXCEPT !.arg = PyStr("Hello Alfred!")])>>),
     PyList(<<PyNew("OutputItem", MinimalItem),
              PyNew("OutputItem", [MinimalItem EXCEPT !.title = PyNone])>>)}

\* The handler of the template's script, with the classes as pyfred.model has them:
\* it logs the script path, the arguments and the environment at level DEBUG and
\* returns one item.
TemplateProgram ==
    Debugging(
      OutputOf(PyNone,
               PyList(<<PyNew("OutputItem", [MinimalItem EXCEPT !.arg = PyStr("Hello Alfred!")])>>),
               PyNone))

\* The handlers: those that return one item, those that return other outputs,
\* those that return something that is no ScriptFilterOutput, and those that, as the
\* template's script does, import the classes from vendored.pyfred.model.
Programs ==
    {OutputOf(PyNone, PyList(<<k>>), PyNone) : k \in ItemsBySubset \cup ItemsByValue}
    \cup {OutputOf(r, q, v) : r \in Reruns, q \in ItemLists, v \in Variables}
    \cup {PyNone, PyStr("Hello Alfred!"), PyList(<<PyNew("OutputItem", MinimalItem)>>),
          PyNew("OutputItem", MinimalItem),
          PyDict(<<<<PyStr("items"), PyList(<<PyNew("OutputItem", MinimalItem)>>)>>>>)}
    \cup {TemplateProgram, Vendored(TemplateProgram),
          Vendored(OutputOf(PyNum(420), PyList(<<>>), PyNone)),
          Vendored(PyNew("OutputItem", MinimalItem))}

\* The command line tool is not run.
CliIdle ==
    /\ fs = [p \in Projects |-> AbsentDir]
    /\ alfred = "notinstalled"
    /\ hostdir = "absent"
    /\ links = [i \in Ids |-> "none"]
    /\ nextId = InitEntries + 1
    /\ last = Ran("none", "none")

\* A workflow script, run once in one of the environments with one of the handlers.
InitFilter ==
    /\ CliIdle
    /\ environ \in HandlerEnvirons
    /\ run = NotStarted
    /\ stdout = <<>>

\* The script calls the decorated handler, which is one of the handlers.
CallHandler == run.pc = "decorated" /\ \E prog \in Programs : Call(prog)

NextFilter ==
    \/ Decorate
    \/ CallHandler

SpecFilter == InitFilter /\ [][NextFilter]_vars

\* The environment reader, in every environment.
InitEnv ==
    /\ CliIdle
    /\ environ \in Environs
    /\ run = NotStarted
    /\ stdout = <<>>

NextEnv == Decorate

SpecEnv == InitEnv /\ [][NextEnv]_vars

(***************************************************************************)
(* Properties of the command line tool.                                    *)
(***************************************************************************)
\* a occurs before b in the trace tr.
Before(tr, a, b) == \E i, j \in DOMAIN tr : i < j /\ tr[i] = a /\ tr[j] = b
\* x occurs in the trace tr.
Did(tr, x) == \E i \in DOMAIN tr : tr[i] = x
\* The host workflows directory exists and is a directory.
HostDirectoryThere == alfred = "ok" /\ hostdir = "dir"
\* The symlinks of the directory L to project p's workflow directory.
LinksTo(p, L) == {i \in Ids : L[i] = p}

\* C3: link, vendor or package run in a directory without workflow/Info.plist ends
\* with exit status 1 before the command body runs: it starts no subprocess, creates
\* no directory or archive and creates or removes no symlink.
C3_OutsideProjectRoot ==
    [][\A p \in Projects :
         (last'.cmd \in {"link", "vendor", "package"} /\ last'.proj = p
            /\ InfoPlist \notin fs[p].files)
         => /\ last'.exit = "exit1" /\ Status(last') = 1
            /\ last'.trace = <<>>
            /\ fs' = fs /\ links' = links /\ nextId' = nextId]_vars

\* A command was refused in an existing directory that holds no workflow.
C3_Witness ==
    /\ last.cmd \in {"link", "vendor", "package"}
    /\ last.exit = "exit1" /\ "critical" \in last.log
    /\ fs[last.proj].root /\ InfoPlist \notin fs[last.proj].files

\* C4: new for a name whose directory does not exist, with the host workflows
\* directory there, adds one symlink to the project's workflow directory, which is
\* then the only one, and leaves every other entry as it was, whatever became of
\* git init (not asked for, succeeded, failed, no git to run); git init runs before
\* pip.
C4_NewOnlyAddsOneLink ==
    [][\A p \in Projects :
         (last'.cmd = "new" /\ last'.proj = p /\ ~fs[p].root /\ HostDirectoryThere)
         => /\ \E n \in Ids : links[n] = "none" /\ links' = [links EXCEPT ![n] = p]
            /\ Cardinality(LinksTo(p, links')) = 1
            /\ (last'.git => Before(last'.trace, "git", "pip"))]_vars

\* C5: new for a name whose directory exists ends with exit status 1 before any
\* later step: no subprocess runs, no manifest is written, no symlink is created
\* or removed.
C5_NewTargetExists ==
    [][\A p \in Projects :
         (last'.cmd = "new" /\ last'.proj = p /\ fs[p].root)
         => /\ last'.exit = "exit1" /\ Status(last') = 1
            /\ "error" \in last'.log
            /\ last'.trace = <<>>
            /\ fs' = fs /\ links' = links /\ nextId' = nextId]_vars

\* new was refused for a directory that exists and has no manifest.
C5_Witness ==
    /\ last.cmd = "new" /\ last.exit = "exit1" /\ last.exc = "OSError"
    /\ fs[last.proj].root /\ InfoPlist \notin fs[last.proj].files

\* C6: link, run from a project root, logs an error and ends with exit(1), creating
\* and removing no symlink, whenever the project's workflow directory or the host
\* workflows directory is missing or is not a directory.
C6_LinkReportsMissingDirectory ==
    [][\A p \in Projects :
         (/\ last'.cmd = "link" /\ last'.proj = p /\ InfoPlist \in fs[p].files
          /\ \/ WorkflowDir \notin fs[p].dirs
             \/ alfred = "syncmissing"
             \/ (alfred = "ok" /\ hostdir # "dir"))
         => /\ "error" \in last'.log
            /\ last'.exit = "exit1"
            /\ links' = links]_vars

\* C7: package, run from a project root, runs pip before it zips; when pip fails it
\* ends with exit status 1 and the archive is neither created nor overwritten; when
\* pip succeeds it writes the archive after vendoring, and the archive holds every
\* regular file below workflow/, vendored files included, under its relative path.
C7_Package ==
    [][\A p \in Projects :
         (last'.cmd = "package" /\ last'.proj = p /\ InfoPlist \in fs[p].files)
         => /\ Did(last'.trace, "pip")
            /\ last'.piprc # 0 =>
                 /\ Status(last') = 1
                 /\ ~Did(last'.trace, "zip")
                 /\ fs'[p].archive = fs[p].archive
                 /\ (ArchiveFile \in fs'[p].files <=> ArchiveFile \in fs[p].files)
            /\ last'.piprc = 0 =>
                 /\ Status(last') = 0
                 /\ Before(last'.trace, "pip", "zip")
                 /\ ArchiveFile \in fs'[p].files
                 /\ fs'[p].archive # None
                 /\ \A e \in fs'[p].files :
                      (Len(e) > 1 /\ e[1] = "workflow") => Tail(e) \in fs'[p].archive[1]]_vars

\* package wrote an archive that holds a vendored file.
C7_Witness ==
    /\ last.cmd = "package" /\ last.exit = "return"
    /\ fs[last.proj].archive # None
    /\ <<"vendored", "dep.py">> \in fs[last.proj].archive[1]
    /\ <<"Info.plist">> \in fs[last.proj].archive[1]

\* C8: vendor, run from a project root, ends with exit status 0 when pip exits
\* with zero and with exit status 1 when pip exits with a non-zero status.
C8_VendorExitStatus ==
    (last.cmd = "vendor" /\ "critical" \notin last.log)
    => Status(last) = IF last.piprc = 0 THEN 0 ELSE 1

\* C9: when the lookup of the sync directory yields no value,
\* _get_workflows_directory returns the default location below the home directory.
C9_DefaultWorkflowsDirectory ==
    (last.cmd = "_get_workflows_directory" /\ SyncLookup(alfred) = Ret(None))
    => (last.exc = "none" /\ last.result = DefaultWorkflowsDirectory)

(***************************************************************************)
(* Properties of the script-filter runtime.                                *)
(***************************************************************************)
\* The handler returned a ScriptFilterOutput, under whichever name the script
\* imported the class (pyfred.model or vendored.pyfred.model).
ReturnedOutput(r) ==
    r.exc = "none" /\ r.returned.t = "obj" /\ r.returned.cls = "ScriptFilterOutput"
\* The handler returned a value that is no ScriptFilterOutput.
ReturnedOther(r) ==
    r.exc = "none" /\ ~(r.returned.t = "obj" /\ r.returned.cls = "ScriptFilterOutput")

\* C1: the function script_filter returns calls the handler exactly once, with the
\* script path, the arguments and the environment or None; when the handler
\* returned a ScriptFilterOutput, exactly one line, a JSON object, is printed and the
\* call returns; when it returned anything else, nothing is printed and the process
\* ends with exit status 1.
C1_CalledOnceAndPrinted ==
    run.pc \in {"returned", "exited", "raised"} =>
      /\ Len(run.received) = 1
      /\ run.received[1][1] = [t |-> "path", v |-> Argv[1]]
      /\ run.received[1][2] = SubSeq(Argv, 2, Len(Argv))
      /\ IF environ["alfred_version"] \in {None, Some("")}
         THEN run.received[1][3] = PyNone
         ELSE run.received[1][3].t = "obj" /\ run.received[1][3].cls = "Environment"
      /\ ReturnedOutput(run) =>
           /\ run.pc = "returned" /\ ExitStatus(run) = 0
           /\ Len(stdout) = 1 /\ stdout[1].t = "obj"
      /\ ReturnedOther(run) =>
           /\ run.pc = "exited" /\ ExitStatus(run) = 1
           /\ stdout = <<>>

\* The names of the members of the JSON object j, and its member of name n.
Names(j) == {j.v[i][1] : i \in DOMAIN j.v}
Member(j, n) == j.v[CHOOSE i \in DOMAIN j.v : j.v[i][1] = n][2]

\* The JSON value j has no null in it.
RECURSIVE NoNull(_)
NoNull(j) ==
    CASE j.t = "null" -> FALSE
      [] j.t = "arr" -> \A i \in DOMAIN j.v : NoNull(j.v[i])
      [] j.t = "obj" -> \A i \in DOMAIN j.v : NoNull(j.v[i][2])
      [] OTHER -> TRUE

\* The type an item is written with: "default" when none is given, the value of a
\* member of Type, the string given otherwise.
WrittenType(given) ==
    IF given = PyNone \/ given = PyStr("") THEN PyStr("default")
    ELSE IF given.t = "enum" THEN PyStr(given.v)
    ELSE given

\* The key of a JSON object a key of a dict is written as.
WrittenKey(k) ==
    CASE k.t \in {"str", "enum"} -> k.v
      [] k.t = "num" -> ToString(k.v)
      [] k.t = "bool" -> IF k.v THEN "true" ELSE "false"
      [] OTHER -> "null"

\* The JSON value j is what the expression e of the handler is to be written as:
\* an object for each constructor call, with one member for each argument that is
\* not None and no other (and the member type, for an item), and so on below it; for
\* a dict an object whose members are named by its keys and hold its values.
RECURSIVE OmitsUnset(_, _)
OmitsUnset(e, j) ==
    CASE e.t = "new" ->
           LET given == {f \in DOMAIN e.kw : e.kw[f] # PyNone}
               item == e.cls = "OutputItem"
           IN  /\ j.t = "obj"
               /\ Names(j) = given \cup (IF item THEN {"title", "type"} ELSE {})
               /\ Len(j.v) = Cardinality(Names(j))
               /\ item => Member(j, "type") = WrittenType(e.kw["type"])
               /\ \A f \in given : (item /\ f = "type") \/ OmitsUnset(e.kw[f], Member(j, f))
      [] e.t = "list" ->
           /\ j.t = "arr"
           /\ DOMAIN j.v = DOMAIN e.v
           /\ \A i \in DOMAIN e.v : OmitsUnset(e.v[i], j.v[i])
      [] e.t = "dict" ->
           /\ j.t = "obj"
           /\ (j.v = <<>>) <=> (e.v = <<>>)
           /\ Names(j) \subseteq {WrittenKey(e.v[i][1]) : i \in DOMAIN e.v}
           /\ \A m \in DOMAIN j.v : \E i \in DOMAIN e.v : OmitsUnset(e.v[i][2], j.v[m][2])
      [] e.t = "do" -> OmitsUnset(e.then, j)
      [] OTHER -> j = e

\* The handler that returns one item with only its title.
MinimalProgram == OutputOf(PyNone, PyList(<<PyNew("OutputItem", MinimalItem)>>), PyNone)
\* {"items": [{"title": "Hello Alfred!", "type": "default"}]}
MinimalLine ==
    [t |-> "obj",
     v |-> <<<<"items",
               [t |-> "arr",
                v |-> <<[t |-> "obj",
                         v |-> <<<<"title", PyStr("Hello Alfred!")>>,
                                 <<"type", PyStr("default")>>>>]>>]>>>>]

\* C2: the line printed for an output has, for every item, exactly the keys title,
\* type and the optional fields that were set, and no null; the same holds at every
\* level (the output, Icon, Text, the Data of mods, Action); a type that is not set
\* is written "default", so that the minimal item is written
\* {"items": [{"title": T, "type": "default"}]}.
C2_OnlySetFieldsWritten ==
    run.pc = "returned" =>
      /\ OmitsUnset(run.program, stdout[1])
      /\ NoNull(stdout[1])
      /\ run.program = MinimalProgram => stdout[1] = MinimalLine

\* An item with every optional field set was printed.
C2_Witness ==
    /\ run.pc = "returned" /\ Len(stdout) = 1
    /\ run.program.t = "new"
    /\ run.program.kw.items.t = "list" /\ Len(run.program.kw.items.v) = 1
    /\ run.program.kw.items.v[1].cls = "OutputItem"
    /\ \A f \in OptionalFields : run.program.kw.items.v[1].kw[f] # PyNone
    /\ Names(Member(stdout[1], "items").v[1]) = OptionalFields \cup {"title", "type"}

\* The variables Alfred sets, other than the marker.
OtherHostVars == EnvVars \ {"alfred_version", "alfred_workflow_bundle_id"}
\* from_env returned a populated Environment.
Populated(r) ==
    /\ r.pc = "decorated" /\ r.environment.t = "obj" /\ r.environment.cls = "Environment"
    /\ r.environment.v.version = PyStr(environ["alfred_version"][1])

\* C10 as stated: from_env returns None, without raising, exactly when
\* alfred_version is not set; when it is set, to any value, and the other
\* variables are set, from_env returns a populated Environment.
C10_AbsentExactlyWhenUnset ==
    run.pc # "start" =>
      /\ (run.pc = "decorated" /\ run.environment = PyNone) <=> environ["alfred_version"] = None
      /\ (environ["alfred_version"] # None /\ \A n \in OtherHostVars : environ[n] # None)
           => Populated(run)

\* C10, amended: from_env returns None, without raising, exactly when
\* alfred_version is not set or is set to the empty string; when it is set to a
\* non-empty value and the other variables are set, from_env returns a populated
\* Environment.
C10_AbsentWhenUnsetOrEmpty ==
    run.pc # "start" =>
      /\ (run.pc = "decorated" /\ run.environment = PyNone)
           <=> environ["alfred_version"] \in {None, Some("")}
      /\ (environ["alfred_version"] \notin {None, Some("")}
            /\ \A n \in OtherHostVars : environ[n] # None)
           => Populated(run)

\* from_env returned None although alfred_version and the other variables are set.
C10_Witness ==
    /\ run.pc = "decorated" /\ run.environment = PyNone
    /\ environ["alfred_version"] = Some("")
    /\ \A n \in OtherHostVars : environ[n] # None

\* The record the variables of the test fixture stand for.
FixtureRecord ==
    [debug |-> PyBool(TRUE),
     preferences_file |-> Path(FixturePreferences),
     version |-> PyStr("5.0"),
     version_build |-> PyStr("2058"),
     workflow_name |-> PyStr("Google Suggest"),
     workflow_version |-> PyStr("1.7"),
     workflow_bundle_id |-> PyStr("com.alfredapp.googlesuggest"),
     workflow_uid |-> PyStr("user.workflow.B0AC54EC-601C-479A-9428-01F9FD732959"),
     workflow_cache |-> Path(FixtureCache),
     workflow_data |-> Path(FixtureData)]

\* C11: with the variables of the test fixture set, the Environment the handler
\* receives has every field equal to the fixture value of its variable, the bundle
\* identifier (alfred_workflow_bundleid) included.
C11_EnvironmentMatchesFixture ==
    (environ = FixtureEnviron /\ Len(run.received) = 1)
      => run.received[1][3] = PyObj("Environment", FixtureRecord)

\* The constructor calls of the expression e, and the dataclass instances of the
\* value v, at every depth.
RECURSIVE News(_)
News(e) ==
    CASE e.t = "new" -> {e} \cup UNION {News(e.kw[k]) : k \in DOMAIN e.kw}
      [] e.t = "list" -> UNION {News(e.v[i]) : i \in DOMAIN e.v}
      [] e.t = "dict" -> UNION {News(e.v[i][2]) : i \in DOMAIN e.v}
      [] e.t = "do" -> News(e.then)
      [] OTHER -> {}
RECURSIVE Objs(_)
Objs(v) ==
    CASE v.t = "obj" -> {v} \cup UNION {Objs(v.v[k]) : k \in DOMAIN v.v}
      [] v.t = "list" -> UNION {Objs(v.v[i]) : i \in DOMAIN v.v}
      [] v.t = "dict" -> UNION {Objs(v.v[i][2]) : i \in DOMAIN v.v}
      [] OTHER -> {}

\* C12: a handler that constructs an OutputItem whose title is empty or None ends
\* with an exception and prints nothing, whatever the other fields are; every
\* OutputItem of a value a handler returned, and every item of a printed line, has
\* a title that is a non-empty string.
C12_TitleRequired ==
    Len(run.received) = 1 =>
      /\ (\E n \in News(run.program) :
            n.cls = "OutputItem" /\ n.kw.title \in {PyNone, PyStr("")})
           => run.pc = "raised" /\ run.exc # "none" /\ stdout = <<>>
      /\ \A o \in Objs(run.returned) :
           o.cls = "OutputItem" => o.v.title.t = "str" /\ o.v.title.v # ""
      /\ (run.pc = "returned" /\ "items" \in Names(stdout[1])) =>
           \A i \in DOMAIN Member(stdout[1], "items").v :
             LET title == Member(Member(stdout[1], "items").v[i], "title")
             IN  title.t = "str" /\ title.v # ""

\* An item with an empty title and other fields set, all of them valid, was
\* refused.
C12_Witness ==
    /\ run.pc = "raised" /\ run.exc = "ValueError" /\ stdout = <<>>
    /\ run.program.t = "new" /\ run.program.kw.items.t = "list"
    /\ Len(run.program.kw.items.v) = 1
    /\ LET item == run.program.kw.items.v[1].kw
       IN  /\ item.title = PyStr("")
           /\ item.icon = IconOf(PyStr("icon.png"), PyNone)
           /\ item.text = TextOf(PyStr("copy"), PyStr("large"))
           /\ item.mods = PyDict(<<<<KeyCmd, DataOf(PyNone, PyNone, PyNone, PyNone)>>>>)
           /\ item.valid = PyBool(FALSE) /\ item.type = TypeFile

\* C13: a handler that constructs a ScriptFilterOutput from valid items and
\* variables succeeds, and returns it with that rerun, exactly when rerun is None or
\* 0.1 <= rerun <= 5 (10 and 500 hundredths of a second); for every other rerun,
\* zero and negative values included, the construction raises ValueError and nothing
\* is printed; a printed line has no rerun or a rerun in that range.
C13_RerunRange ==
    (Len(run.received) = 1 /\ run.program.t = "new"
       /\ run.program.cls = "ScriptFilterOutput") =>
      LET r == run.program.kw.rerun
          inRange == r = PyNone \/ (10 <= r.v /\ r.v <= 500)
          argsFine == /\ Eval(run.program.kw.items).exc = "none"
                      /\ Eval(run.program.kw.variables).exc = "none"
      IN  /\ ~inRange => run.pc = "raised" /\ stdout = <<>>
          /\ (~inRange /\ argsFine) => run.exc = "ValueError"
          /\ (inRange /\ argsFine) =>
               /\ run.exc = "none" /\ run.pc \in {"returned", "exited"}
               /\ run.returned.t = "obj" /\ run.returned.cls = "ScriptFilterOutput"
               /\ run.returned.v.rerun = r
               /\ run.program.mod = ModelModule => run.pc = "returned" /\ Len(stdout) = 1
          /\ run.pc = "returned" =>
               /\ inRange
               /\ IF r = PyNone THEN "rerun" \notin Names(stdout[1])
                  ELSE "rerun" \in Names(stdout[1]) /\ Member(stdout[1], "rerun") = r

\* An output with rerun 0.1, the lower bound, was printed.
C13_Witness ==
    /\ run.pc = "returned" /\ Len(stdout) = 1
    /\ run.program.t = "new" /\ run.program.kw.rerun = PyNum(10)
    /\ "rerun" \in Names(stdout[1]) /\ Member(stdout[1], "rerun") = PyNum(10)

\* C14 as stated: every Icon of a value a handler returned has a type that is None,
\* fileicon or filetype, and a handler that constructs an Icon with any other type,
\* the empty string included, ends with an exception and prints nothing.
C14_IconTypeRecognized ==
    Len(run.received) = 1 =>
      /\ \A o \in Objs(run.returned) :
           o.cls = "Icon" => o.v.type \in {PyNone, PyStr("fileicon"), PyStr("filetype")}
      /\ (\E n \in News(run.program) :
            n.cls = "Icon" /\ n.kw.type \notin {PyNone, PyStr("fileicon"), PyStr("filetype")})
           => run.pc = "raised" /\ stdout = <<>>

\* C14, amended: every Icon of a value a handler returned has a type that is None,
\* the empty string, fileicon or filetype, and a handler that constructs an Icon
\* with any other type, a non-empty string, ends with an exception and prints
\* nothing.
C14_IconTypeRecognizedOrEmpty ==
    Len(run.received) = 1 =>
      /\ \A o \in Objs(run.returned) :
           o.cls = "Icon" =>
             o.v.type \in {PyNone, PyStr(""), PyStr("fileicon"), PyStr("filetype")}
      /\ (\E n \in News(run.program) :
            n.cls = "Icon"
            /\ n.kw.type \notin {PyNone, PyStr(""), PyStr("fileicon"), PyStr("filetype")})
           => run.pc = "raised" /\ stdout = <<>>

\* An Icon with the empty string for its type was constructed and printed.
C14_Witness ==
    /\ run.pc = "returned" /\ Len(stdout) = 1
    /\ \E o \in Objs(run.returned) : o.cls = "Icon" /\ o.v.type = PyStr("")
    /\ Member(Member(Member(stdout[1], "items").v[1], "icon"), "type") = PyStr("")

\* The string a key of mods is to be kept as: the value of a member of Key, the
\* string itself otherwise.
WireKey(k) == IF k.t = "enum" THEN PyStr(k.v) ELSE k

\* C15: a handler that returns one item with a mods map, whose other fields are
\* valid, succeeds whether the keys are members of Key or raw strings; the keys of
\* the item's mods are then the wire strings of the members and the raw strings
\* unchanged, each mapped to the Data it was given with.
C15_ModsKeysNormalized ==
    (/\ Len(run.received) = 1
     /\ run.program.t = "new" /\ run.program.cls = "ScriptFilterOutput"
     /\ run.program.kw.items.t = "list" /\ Len(run.program.kw.items.v) = 1
     /\ run.program.kw.items.v[1].t = "new"
     /\ run.program.kw.items.v[1].kw.mods.t = "dict") =>
      LET mods == run.program.kw.items.v[1].kw.mods.v
          without == [run.program EXCEPT !.kw.items.v[1].kw.mods = PyNone]
      IN  Eval(without).exc = "none" =>
            /\ run.exc = "none" /\ run.pc \in {"returned", "exited"}
            /\ LET made == run.returned.v.items.v[1].v.mods
               IN  /\ made.t = "dict"
                   /\ Len(made.v) = Len(mods)
                   /\ \A i \in DOMAIN mods :
                        made.v[i] = <<WireKey(mods[i][1]), Eval(mods[i][2]).val>>

(***************************************************************************)
(* Properties of link.                                                     *)
(***************************************************************************)
\* C16: link without relink, when the host workflows directory holds a symlink to
\* the project's workflow directory, leaves the directory as it is, with or without
\* same-path: it removes and creates nothing and generates no name; run from the
\* project root it returns having found that link. Hence a link without relink that
\* follows a link that returned changes nothing.
C16_LinkKeepsExistingLink ==
    [][\A p \in Projects :
         /\ (last'.cmd = "link" /\ last'.proj = p /\ ~last'.relink
               /\ LinksTo(p, links) # {})
            => /\ links' = links /\ hostdir' = hostdir /\ nextId' = nextId
               /\ last'.trace = <<>>
               /\ InfoPlist \in fs[p].files
                    => last'.exit = "return" /\ last'.found \in LinksTo(p, links)
         /\ (last.cmd = "link" /\ last.proj = p /\ last.exit = "return"
               /\ last'.cmd = "link" /\ last'.proj = p /\ ~last'.relink)
            => links' = links /\ last'.exit = "return"]_vars

\* link --same-path without relink found the existing link and left it.
C16_Witness ==
    /\ last.cmd = "link" /\ ~last.relink /\ last.same_path
    /\ last.exit = "return" /\ last.trace = <<>>
    /\ last.found # 0 /\ links[last.found] = last.proj

\* C17: link with relink, run from the project root while the host workflows
\* directory holds a symlink P to the project's workflow directory, removes P and
\* then creates one symlink to it: with same-path at P, so that the directory is as
\* before; without same-path under a newly generated name that is not P and held
\* nothing, and P holds nothing afterwards. No other entry changes.
C17_RelinkReplaces ==
    [][\A p \in Projects :
         (last'.cmd = "link" /\ last'.proj = p /\ last'.relink
            /\ InfoPlist \in fs[p].files /\ LinksTo(p, links) # {})
         => /\ last'.exit = "return"
            /\ last'.found \in LinksTo(p, links)
            /\ last'.trace = <<"unlink", "symlink">>
            /\ IF last'.same_path
               THEN links' = links /\ nextId' = nextId
               ELSE \E n \in Ids :
                      /\ n # last'.found /\ links[n] = "none"
                      /\ links' = [links EXCEPT ![last'.found] = "none", ![n] = p]]_vars

\* link --relink without same-path moved the link to a new name.
C17_Witness ==
    /\ last.cmd = "link" /\ last.relink /\ ~last.same_path /\ last.exit = "return"
    /\ last.found # 0 /\ links[last.found] = "none"
    /\ last.trace = <<"unlink", "symlink">>
    /\ Cardinality(LinksTo(last.proj, links)) = 1

\* C18: in a host workflows directory that holds at most one symlink to the
\* project's workflow directory, every link run from the project root, whatever
\* its flags, returns and leaves exactly one such symlink; no command leaves more
\* than one, and no entry that is not a symlink to the project is removed or
\* changed by link.
C18_OneLinkPerProject ==
    [][\A p \in Projects :
         Cardinality(LinksTo(p, links)) <= 1 =>
           /\ Cardinality(LinksTo(p, links')) <= 1
           /\ (last'.cmd = "link" /\ last'.proj = p /\ InfoPlist \in fs[p].files
                 /\ HostDirectoryThere)
              => /\ last'.exit = "return"
                 /\ Cardinality(LinksTo(p, links')) = 1
                 /\ \A i \in Ids : links[i] \notin {p, "none"} => links'[i] = links[i]]_vars

\* In a project that new did not create and nothing was vendored into, link has
\* created the first symlink and two relinks have each replaced the last one under
\* a newly generated name, next to an entry of another workflow, which is still
\* there.
C18_Witness ==
    /\ last.cmd = "link" /\ last.relink /\ ~last.same_path /\ last.exit = "return"
    /\ InfoPlist \in fs[last.proj].files /\ VendoredDir \notin fs[last.proj].dirs
    /\ last.found = InitEntries + 2
    /\ nextId = InitEntries + 4
    /\ Cardinality(LinksTo(last.proj, links)) = 1
    /\ \E i \in Ids : links[i] = "other"

(***************************************************************************)
(* Properties of the environment reader inside script_filter.              *)
(***************************************************************************)
\* C19 as stated: when alfred_version is set and alfred_preferences is not,
\* from_env raises (a TypeError, from Path(None)) inside script_filter: the script
\* ends there, the handler is never called and nothing is printed.
C19_CrashWhenPreferencesUnset ==
    (run.pc # "start" /\ environ["alfred_version"] # None
       /\ environ["alfred_preferences"] = None)
      => /\ run.pc = "crashed" /\ run.exc = "TypeError" /\ ExitStatus(run) = 1
         /\ run.environment = PyNone
         /\ run.received = <<>> /\ stdout = <<>>

\* C19, amended: when alfred_version is set to a non-empty value and
\* alfred_preferences is not set, from_env raises (a TypeError, from Path(None))
\* inside script_filter: the script ends there, the handler is never called and
\* nothing is printed.
C19_CrashWhenHostedWithoutPreferences ==
    (run.pc # "start" /\ environ["alfred_version"] \notin {None, Some("")}
       /\ environ["alfred_preferences"] = None)
      => /\ run.pc = "crashed" /\ run.exc = "TypeError" /\ ExitStatus(run) = 1
         /\ run.environment = PyNone
         /\ run.received = <<>> /\ stdout = <<>>

\* The script ended in script_filter, in the fixture's environment without
\* alfred_preferences.
C19_Witness ==
    /\ run.pc = "crashed" /\ run.exc = "TypeError"
    /\ environ["alfred_version"] = Some("5.0") /\ environ["alfred_preferences"] = None
    /\ run.received = <<>> /\ stdout = <<>>

====
